---- MODULE Spec2Model ----
(***************************************************************************)
(* Khushu admin backend: the product catalogue routes and their access     *)
(* policy, as a state machine over the product collection.                 *)
(*                                                                         *)
(* The repository holds four generations of the product routes:            *)
(*   routesA  routes/productRoutes.js, first half  (no token check,        *)
(*            unpaginated list, images kept as /uploads/ paths)            *)
(*   routesB  routes/productRoutes.js, second half (requireAuth +          *)
(*            requireAdmin, paginated list, images kept as binary)         *)
(*   serverA  server file, first half  (routes declared on app)            *)
(*   serverB  server file, second half (routes declared on app)            *)
(* A deployment runs one of them; the product collection outlives          *)
(* deployments, and so does the user collection of routes/authRoutes.js,    *)
(* which every generation mounts.  Every HTTP request occupies a slot; a handler that makes   *)
(* two database calls is two steps, so that other requests interleave      *)
(* between them.                                                           *)
(***************************************************************************)
EXTENDS Integers, Sequences, FiniteSets, TLC

\* ---------------------------------------------------------------- bounds
MaxProducts == 2      \* documents the collection may hold
MaxImages == 3        \* longest image sequence a write may produce
MaxReqs == 2          \* requests in flight at once

VARIABLES variant, store, users, req, out

vars == <<variant, store, users, req, out>>

Variants == {"routesA", "routesB", "serverA", "serverB"}
Slots == 1..MaxReqs

\* ------------------------------------------------------------ JS helpers
Min(a, b) == IF a < b THEN a ELSE b
Abs(a) == IF a < 0 THEN -a ELSE a

RECURSIVE Reverse(_)
Reverse(s) == IF s = <<>> THEN <<>> ELSE Append(Reverse(Tail(s)), Head(s))

RECURSIVE Filter(_, _)
\* the elements of s (documents) whose id is in the set keep, in order
Filter(s, keep) ==
  IF s = <<>> THEN <<>>
  ELSE IF Head(s).id \in keep THEN <<Head(s)>> \o Filter(Tail(s), keep)
       ELSE Filter(Tail(s), keep)

\* A JS number that may be NaN
NaN == [isNaN |-> TRUE, val |-> 0]
Num(v) == [isNaN |-> FALSE, val |-> v]

\* String(undefined): what parseInt sees for a query parameter that is absent
Undefined == <<"u", "n", "d", "e", "f", "i", "n", "e", "d">>

DigitChars == {"0", "1", "2", "3", "4", "5", "6", "7", "8", "9"}
DigitVal(c) ==
  CASE c = "0" -> 0 [] c = "1" -> 1 [] c = "2" -> 2 [] c = "3" -> 3
    [] c = "4" -> 4 [] c = "5" -> 5 [] c = "6" -> 6 [] c = "7" -> 7
    [] c = "8" -> 8 [] c = "9" -> 9

RECURSIVE TrimStart(_)
TrimStart(s) ==
  IF s # <<>> /\ Head(s) = " " THEN TrimStart(Tail(s)) ELSE s

RECURSIVE LeadingDigits(_)
LeadingDigits(s) ==
  IF s # <<>> /\ Head(s) \in DigitChars
  THEN <<Head(s)>> \o LeadingDigits(Tail(s))
  ELSE <<>>

RECURSIVE DecimalValue(_, _)
DecimalValue(s, acc) ==
  IF s = <<>> THEN acc ELSE DecimalValue(Tail(s), 10 * acc + DigitVal(Head(s)))

\* parseInt(string): leading white space, an optional sign, then the longest
\* run of decimal digits; NaN when there is no digit.  Text after the digits
\* is ignored.
parseInt(s) ==
  LET t == TrimStart(s)
      signed == t # <<>> /\ Head(t) \in {"+", "-"}
      u == IF signed THEN Tail(t) ELSE t
      d == LeadingDigits(u)
  IN IF d = <<>> THEN NaN
     ELSE IF signed /\ Head(t) = "-" THEN Num(-DecimalValue(d, 0))
     ELSE Num(DecimalValue(d, 0))

\* parseFloat on the price strings the model sends (no fraction, no exponent)
parseFloat(s) == parseInt(s)

\* `n || d` on a number: NaN and 0 are falsy
OrDefault(n, d) == IF n.isNaN \/ n.val = 0 THEN d ELSE n.val

DefaultPage == 1
DefaultLimit == 12

\* Math.ceil(a / b) for a >= 0 and b # 0
MathCeilDiv(a, b) == IF b > 0 THEN (a + b - 1) \div b ELSE -(a \div (-b))

\* ------------------------------------------------------------------ text
\* Text is a sequence of characters; <<>> is a missing (undefined) field.
UpperChars == <<"A", "B", "C", "D", "E", "F", "G", "H", "I", "J", "K", "L", "M",
                "N", "O", "P", "Q", "R", "S", "T", "U", "V", "W", "X", "Y", "Z">>
LowerChars == <<"a", "b", "c", "d", "e", "f", "g", "h", "i", "j", "k", "l", "m",
                "n", "o", "p", "q", "r", "s", "t", "u", "v", "w", "x", "y", "z">>
toLowerChar(c) ==
  IF \E i \in 1..26 : UpperChars[i] = c
  THEN LowerChars[CHOOSE i \in 1..26 : UpperChars[i] = c]
  ELSE c
\* a handler that compares the email as it was typed
toLowerCaseSkipped(s) == s

toLowerCase(s) == [i \in 1..Len(s) |-> toLowerChar(s[i])]

\* { field: { $regex: q, $options: 'i' } }: q is a pattern, "." stands for any
\* one character, the other characters of the model's queries are literals.
RegexMatch(text, q) ==
  \E off \in 0..(Len(text) - Len(q)) :
    \A i \in 1..Len(q) :
      q[i] = "." \/ toLowerChar(q[i]) = toLowerChar(text[off + i])

Electronics == <<"E", "l", "e", "c", "t", "r", "o", "n", "i", "c", "s">>
Clothing == <<"C", "l", "o", "t", "h", "i", "n", "g">>

\* ------------------------------------------------------- product schema
MaxNameLen == 100
MaxDescLen == 1000
Categories == {Electronics, Clothing}

\* The validators of the Product schema on the paths a write sets
ValidPaths(d) ==
  /\ ("name" \in DOMAIN d) => d.name # <<>> /\ Len(d.name) <= MaxNameLen
  /\ ("description" \in DOMAIN d) =>
       d.description # <<>> /\ Len(d.description) <= MaxDescLen
  /\ ("price" \in DOMAIN d) => ~d.price.isNaN /\ d.price.val >= 0
  /\ ("stock" \in DOMAIN d) => ~d.stock.isNaN /\ d.stock.val >= 0
  /\ ("category" \in DOMAIN d) => d.category \in Categories
  /\ ("images" \in DOMAIN d) => d.images # <<>>

RequiredPaths == {"name", "description", "price", "stock", "category", "images"}

\* Product.create(d): every required path is present and valid
ValidProduct(d) == RequiredPaths \subseteq DOMAIN d /\ ValidPaths(d)

\* --------------------------------------------------------------- inputs
Body1 == [name |-> <<"M", "i", "c">>, description |-> <<"h", "i", "f", "i">>,
          price |-> <<"9", "9">>, category |-> Electronics, stock |-> <<"5", "0">>]
Body2 == [name |-> <<"C", "a", "p">>, description |-> <<"r", "e", "d">>,
          price |-> <<"7">>, category |-> Clothing, stock |-> <<"0">>]
BodyBad == [name |-> <<>>, description |-> <<"r", "e", "d">>,
            price |-> <<"x">>, category |-> <<"T", "o", "y", "s">>, stock |-> <<"-", "1">>]
Bodies == {Body1, Body2, BodyBad}
\* a body that also carries a field the update handler does not read
BodyActive == [name |-> <<"H", "a", "t">>, description |-> <<"n", "e", "w">>,
               price |-> <<"8">>, category |-> Electronics, stock |-> <<"3">>,
               isActive |-> <<"t", "r", "u", "e">>]
NoBody == [name |-> <<>>, description |-> <<>>, price |-> <<>>,
           category |-> <<>>, stock |-> <<>>]

MaxFiles == 10
TooManyFiles == [i \in 1..(MaxFiles + 1) |-> "a.png"]
Uploads == {<<>>, <<"a.png">>, <<"b.jpg", "a.png">>, TooManyFiles}

Tokens == {"none", "forged", "user", "admin"}
\* The store issues a document's id when it creates it.  A request names the
\* id of a stored product, or NoSuchId, an id the store never issues.
NoSuchId == 0

\* the page and limit query parameters of a list or search request
PageLimit ==
  { <<Undefined, Undefined>>, <<<<"1">>, <<"1">>>>, <<<<"2">>, <<"1">>>>,
    <<<<"2", "x">>, <<"2">>>>, <<<<"0">>, <<"0">>>>, <<<<"a">>, <<>>>>,
    <<<<"-", "1">>, <<"1">>>>, <<<<"2">>, <<"-", "1">>>> }
Queries == { <<"e", "l", "e", "c", "t", "r", "o", "n">>, <<"C", "A", "P">>, <<"r", ".", "d">> }

\* --------------------------------------------------------------- tokens
\* jwt.verify in requireAuth: the role the token encodes, or "invalid"
verifyToken(tok) ==
  CASE tok = "admin" -> "admin" [] tok = "user" -> "user" [] OTHER -> "invalid"

Guarded == variant # "routesA"
Paginated == variant # "routesA"
IsServer == variant \in {"serverA", "serverB"}

\* requireAuth, requireAdmin: the status they answer with, 0 when they pass on
authStatus(tok) ==
  IF ~Guarded THEN 0
  ELSE IF verifyToken(tok) = "invalid" THEN 401
  ELSE IF verifyToken(tok) # "admin" THEN 403
  ELSE 0

\* --------------------------------------------------------------- images
\* How an uploaded file is stored: a /uploads/ path, a binary blob with its
\* content type, or an absolute URL
storedImage(op, file) ==
  CASE variant = "routesA" -> [kind |-> "path", file |-> file]
    [] variant = "routesB" -> [kind |-> "blob", file |-> file]
    [] variant = "serverA" ->
         IF op = "create" THEN [kind |-> "blob", file |-> file]
         ELSE [kind |-> "path", file |-> file]
    [] variant = "serverB" -> [kind |-> "url", file |-> file]

storedImages(op, files) == [i \in 1..Len(files) |-> storedImage(op, files[i])]

\* toDataUrlProduct: a blob becomes a data: URL; a string is sent as it is
\* (a legacy /uploads/ path whose file is gone from the disk)
toDataUrlImage(img) ==
  IF img.kind = "blob" THEN [kind |-> "dataUrl", file |-> img.file] ELSE img

toDataUrlProduct(doc) ==
  [doc EXCEPT !.images = [i \in 1..Len(doc.images) |-> toDataUrlImage(doc.images[i])]]

\* what a handler puts in data for a product document
sent(doc) == IF variant = "routesB" THEN toDataUrlProduct(doc) ELSE doc

sentAll(docs) == [i \in 1..Len(docs) |-> sent(docs[i])]

\* ---------------------------------------------------------------- store
\* The collection is the sequence of documents in creation order; a
\* document's id is its position.
Ids == 1..Len(store)

\* Product.findById(id): <<doc>> or <<>> (null)
findById(id) == IF id \in Ids THEN <<store[id]>> ELSE <<>>

\* an update that also restores the schema default of isActive
applyUpdateReviving(doc, upd) ==
  [k \in DOMAIN doc |->
     IF k \in DOMAIN upd THEN upd[k] ELSE IF k = "isActive" THEN TRUE ELSE doc[k]]

\* the document as an update of the paths in upd leaves it
applyUpdate(doc, upd) ==
  [k \in DOMAIN doc |-> IF k \in DOMAIN upd THEN upd[k] ELSE doc[k]]

\* a schema whose isActive defaults to false
newDocumentInactive(paths) ==
  [id |-> Len(store) + 1,
   name |-> paths.name, description |-> paths.description,
   category |-> IF "category" \in DOMAIN paths THEN paths.category ELSE <<>>,
   price |-> paths.price, stock |-> paths.stock,
   images |-> paths.images, isActive |-> FALSE]

\* the document Product.create builds from the paths given: isActive
\* defaults to true
newDocument(paths) ==
  [id |-> Len(store) + 1,
   name |-> paths.name, description |-> paths.description,
   category |-> IF "category" \in DOMAIN paths THEN paths.category ELSE <<>>,
   price |-> paths.price, stock |-> paths.stock,
   images |-> paths.images, isActive |-> TRUE]

\* a find without the isActive filter
ActiveIdsUnfiltered == Ids

\* { isActive: true }
ActiveIds == {i \in Ids : store[i].isActive}

\* the search criteria: active, and the pattern found in name or description
\* (and, in the router, category)
matchesSearch(doc, q) ==
  /\ doc.isActive
  /\ \/ RegexMatch(doc.name, q)
     \/ RegexMatch(doc.description, q)
     \/ (~IsServer /\ RegexMatch(doc.category, q))

\* the ids a list (q = <<>>) or a search for q selects
criteria(op, q) ==
  IF op = "list" THEN ActiveIds ELSE {i \in Ids : matchesSearch(store[i], q)}

\* a find that leaves out the sort
findSortedAscending(ids) == Filter(store, ids)

\* find(criteria).sort({ createdAt: -1 })
findSorted(ids) == Reverse(Filter(store, ids))

\* a cursor that returns one document more than the limit
skipLimitInclusive(docs, skip, limit) ==
  SubSeq(docs, skip + 1, Min(Len(docs), skip + Abs(limit) + 1))

\* .skip(skip).limit(limit) on a cursor; the server takes a negative limit
\* as its absolute value
skipLimit(docs, skip, limit) ==
  SubSeq(docs, skip + 1, Min(Len(docs), skip + Abs(limit)))

\* countDocuments(criteria)
countDocuments(ids) == Cardinality(ids)

\* ------------------------------------------------------------- requests
\* A slot holds a request between its two database calls: its inputs and
\* what the first call returned.  out is the exchange the last step
\* completed: the request and the response sent for it.
Idle == [phase |-> "idle", op |-> "none"]
NoOut == [req |-> Idle, res |-> [status |-> 0]]

\* the last response has left the server
Ready == out = NoOut

\* a request that has to wait takes the first idle slot
Free(s) ==
  /\ s \in Slots
  /\ req[s].phase = "idle"
  /\ \A t \in 1..(s - 1) : req[t].phase # "idle"

\* the response res to request r, which leaves slot s (0: it never waited)
Respond(s, r, res) ==
  /\ req' = [t \in Slots |-> IF t = s THEN Idle ELSE req[t]]
  /\ out' = [req |-> r, res |-> res]

\* the request r waits in slot s for its second database call; the requests
\* that wait together are all updates or all reads
Await(s, r) ==
  /\ Free(s)
  /\ \A t \in Slots : req[t].phase # "idle" => (req[t].op = "update") = (r.op = "update")
  /\ req' = [req EXCEPT ![s] = r]
  /\ out' = NoOut

\* the documents an earlier deployment left in the collection
SeedBody(i) == IF i % 2 = 1 THEN Body1 ELSE Body2
SeedStore(n) ==
  [i \in 1..n |->
     [id |-> i, name |-> SeedBody(i).name, description |-> SeedBody(i).description,
      category |-> SeedBody(i).category, price |-> parseFloat(SeedBody(i).price),
      stock |-> parseInt(SeedBody(i).stock),
      images |-> storedImages("create", <<"a.png">>), isActive |-> TRUE]]

\* The server generations never pass a category to Product.create, so they
\* only serve what the collection already holds.
Init ==
  /\ variant \in Variants
  /\ store = IF IsServer THEN SeedStore(MaxProducts) ELSE <<>>
  /\ users = <<>>
  /\ req = [s \in Slots |-> Idle]
  /\ out = NoOut

\* the answer of multer's error callback (server) or of the error middleware
uploadError ==
  IF IsServer THEN [status |-> 400, message |-> "File upload error"]
  ELSE [status |-> 500, message |-> "Something went wrong!"]

\* the paths a handler passes to Product.create or sets in updateData
bodyPaths(body) ==
  LET given == [name |-> body.name, description |-> body.description,
                price |-> parseFloat(body.price), stock |-> parseInt(body.stock)]
  IN IF IsServer THEN given
     ELSE [k \in DOMAIN given \cup {"category"} |->
             IF k = "category" THEN body.category ELSE given[k]]

withImages(paths, images) ==
  [k \in DOMAIN paths \cup {"images"} |-> IF k = "images" THEN images ELSE paths[k]]

\* a handler without the check for uploaded files
noFilesUnchecked(files) == FALSE

\* !req.files || req.files.length === 0
noFilesUploaded(files) == files = <<>>

\* the ids a request can name
KnownIds == Ids \cup {NoSuchId}

\* In every handler dbError says that the database call the step makes
\* fails; a step that makes none cannot fail.

\* POST /api/products
CreateProduct(tok, body, files, dbError) ==
  LET r == [phase |-> "idle", op |-> "create", tok |-> tok, body |-> body,
            files |-> files, dbError |-> dbError]
      paths == withImages(bodyPaths(body), storedImages("create", files))
  IN /\ Ready
     /\ dbError => authStatus(tok) = 0 /\ Len(files) <= MaxFiles /\ ~noFilesUploaded(files)
     /\ IF authStatus(tok) # 0
        THEN /\ Respond(0, r, [status |-> authStatus(tok)])
             /\ UNCHANGED store
        ELSE IF Len(files) > MaxFiles
        THEN /\ Respond(0, r, uploadError)
             /\ UNCHANGED store
        ELSE IF noFilesUploaded(files)
        THEN /\ Respond(0, r, [status |-> 400,
                                message |-> "At least one image is required"])
             /\ UNCHANGED store
        ELSE IF dbError \/ ~ValidProduct(paths)
        THEN /\ Respond(0, r, [status |-> 400, message |-> "Error creating product"])
             /\ UNCHANGED store
        ELSE /\ Len(store) < MaxProducts
             /\ store' = Append(store, newDocument(paths))
             /\ Respond(0, r, [status |-> 201,
                                message |-> "Product created successfully",
                                data |-> sent(newDocument(paths))])
     /\ UNCHANGED <<variant, users>>

\* an update that appends to what the store holds at the time of the write
\* (an atomic $push)
updateDataPush(r) ==
  IF r.files = <<>> \/ findById(r.id) = <<>> THEN bodyPaths(r.body)
  ELSE withImages(bodyPaths(r.body),
                  findById(r.id)[1].images \o storedImages("update", r.files))

\* updateData of PUT /api/products/:id; r.existing is what findById returned
updateData(r) ==
  LET fields == bodyPaths(r.body)
      newImages == storedImages("update", r.files)
  IN IF r.files = <<>> THEN fields
     ELSE IF r.existing # <<>>
     THEN withImages(fields, r.existing[1].images \o newImages)
     ELSE IF variant = "routesB" THEN withImages(fields, newImages)
     ELSE fields

\* an update whose filter also asks for isActive: true
writeUpdateActiveOnly(s, r, dbError) ==
  IF dbError \/ ~ValidPaths(updateData(r))
  THEN /\ Respond(s, r, [status |-> 400, message |-> "Error updating product"])
       /\ UNCHANGED store
  ELSE IF r.id \notin Ids \/ ~store[r.id].isActive
  THEN /\ Respond(s, r, [status |-> 404, message |-> "Product not found"])
       /\ UNCHANGED store
  ELSE LET doc == applyUpdate(store[r.id], updateData(r))
       IN /\ store' = [store EXCEPT ![r.id] = doc]
          /\ req' = [t \in Slots |->
                       IF t = s THEN Idle
                       ELSE IF req[t].op = "update" /\ req[t].id = r.id
                       THEN [req[t] EXCEPT !.overtaken = <<doc.images>>]
                       ELSE req[t]]
          /\ out' = [req |-> r,
                     res |-> [status |-> 200, message |-> "Product updated successfully",
                              data |-> sent(doc)]]

\* Product.findByIdAndUpdate(id, updateData, { new: true, runValidators: true })
\* and the response of PUT /api/products/:id.  A request that has read the
\* same product and still waits is marked overtaken, with the images this
\* write stored.
writeUpdate(s, r, dbError) ==
  IF dbError \/ ~ValidPaths(updateData(r))
  THEN /\ Respond(s, r, [status |-> 400, message |-> "Error updating product"])
       /\ UNCHANGED store
  ELSE IF r.id \notin Ids
  THEN /\ Respond(s, r, [status |-> 404, message |-> "Product not found"])
       /\ UNCHANGED store
  ELSE LET doc == applyUpdate(store[r.id], updateData(r))
       IN /\ store' = [store EXCEPT ![r.id] = doc]
          /\ req' = [t \in Slots |->
                       IF t = s THEN Idle
                       ELSE IF req[t].op = "update" /\ req[t].id = r.id
                       THEN [req[t] EXCEPT !.overtaken = <<doc.images>>]
                       ELSE req[t]]
          /\ out' = [req |-> r,
                     res |-> [status |-> 200, message |-> "Product updated successfully",
                              data |-> sent(doc)]]

\* PUT /api/products/:id up to its first database call; s is the slot it
\* waits in, 0 when it is answered at once
UpdateProduct(s, tok, id, body, files, dbError) ==
  LET r == [phase |-> "idle", op |-> "update", tok |-> tok, id |-> id,
            body |-> body, files |-> files, existing |-> <<>>, overtaken |-> <<>>,
            dbError |-> dbError]
      atOnce == authStatus(tok) # 0 \/ Len(files) > MaxFiles \/ files = <<>> \/ dbError
  IN /\ Ready
     /\ dbError => authStatus(tok) = 0 /\ Len(files) <= MaxFiles
     /\ (s = 0) <=> atOnce
     /\ IF authStatus(tok) # 0
        THEN /\ Respond(0, r, [status |-> authStatus(tok)])
             /\ UNCHANGED store
        ELSE IF Len(files) > MaxFiles
        THEN /\ Respond(0, r, uploadError)
             /\ UNCHANGED store
        ELSE IF files = <<>>
        THEN writeUpdate(0, r, dbError)
        ELSE IF dbError
        THEN /\ Respond(0, r, [status |-> 400, message |-> "Error updating product"])
             /\ UNCHANGED store
        ELSE /\ findById(id) # <<>> => Len(findById(id)[1].images) + Len(files) <= MaxImages
             /\ Await(s, [r EXCEPT !.phase = "read", !.existing = findById(id)])
             /\ UNCHANGED store
     /\ UNCHANGED <<variant, users>>

\* PUT /api/products/:id from findByIdAndUpdate on, after existingProduct was read
UpdateProductWrite(s, dbError) ==
  /\ Ready
  /\ req[s].phase = "read"
  /\ writeUpdate(s, [req[s] EXCEPT !.dbError = dbError], dbError)
  /\ UNCHANGED <<variant, users>>

\* DELETE /api/products/:id
DeleteProduct(tok, id, dbError) ==
  LET r == [phase |-> "idle", op |-> "delete", tok |-> tok, id |-> id,
            dbError |-> dbError]
  IN /\ Ready
     /\ dbError => authStatus(tok) = 0
     /\ IF authStatus(tok) # 0
        THEN /\ Respond(0, r, [status |-> authStatus(tok)])
             /\ UNCHANGED store
        ELSE IF dbError
        THEN /\ Respond(0, r, [status |-> 500, message |-> "Error deleting product"])
             /\ UNCHANGED store
        ELSE IF id \notin Ids
        THEN /\ Respond(0, r, [status |-> 404, message |-> "Product not found"])
             /\ UNCHANGED store
        ELSE /\ store' = [store EXCEPT ![id].isActive = FALSE]
             /\ Respond(0, r, [status |-> 200, message |-> "Product deleted successfully"])
     /\ UNCHANGED <<variant, users>>

\* GET /api/products/:id.  In serverA the handler has no Product in scope: the
\* ReferenceError is caught and answered as a server error.
GetProduct(id, dbError) ==
  LET r == [phase |-> "idle", op |-> "get", id |-> id, dbError |-> dbError]
  IN /\ Ready
     /\ dbError => variant # "serverA"
     /\ IF variant = "serverA"
        THEN Respond(0, r, [status |-> 500, message |-> "Server error"])
        ELSE IF dbError
        THEN Respond(0, r, [status |-> 500, message |-> "Error fetching product"])
        ELSE IF findById(id) = <<>>
        THEN Respond(0, r, [status |-> 404, message |-> "Product not found"])
        ELSE Respond(0, r, [status |-> 200, data |-> sent(findById(id)[1])])
     /\ UNCHANGED <<variant, store, users>>

\* a handler that reads the page from the limit parameter
pageOfLimit(r) == OrDefault(parseInt(r.limit), DefaultPage)

\* page, limit and skip of a list or search request r
pageOf(r) == OrDefault(parseInt(r.page), DefaultPage)
limitOf(r) == OrDefault(parseInt(r.limit), DefaultLimit)
skipOf(r) == (pageOf(r) - 1) * limitOf(r)

\* a response whose count is the length of the page
pageResponseLength(r, products, total) ==
  [status |-> 200, count |-> Len(products), data |-> sentAll(products),
   page |-> pageOf(r),
   totalPages |-> MathCeilDiv(total, limitOf(r)),
   hasNextPage |-> pageOf(r) * limitOf(r) < total,
   hasPrevPage |-> pageOf(r) > 1]

\* the 200 response of the paginated list and search
pageResponse(r, products, total) ==
  [status |-> 200, count |-> total, data |-> sentAll(products),
   page |-> pageOf(r),
   totalPages |-> MathCeilDiv(total, limitOf(r)),
   hasNextPage |-> pageOf(r) * limitOf(r) < total,
   hasPrevPage |-> pageOf(r) > 1]

listError(r) ==
  [status |-> 500,
   message |-> IF r.op = "list" THEN "Error fetching products"
               ELSE "Error searching products"]

\* the find of a paginated request: the server rejects a negative skip
findFails(r, dbError) == dbError \/ skipOf(r) < 0
findPage(r) == skipLimit(findSorted(criteria(r.op, r.query)), skipOf(r), limitOf(r))

\* GET /api/products and GET /api/products/search/:query up to the first
\* database call.  routesA makes one call; the server files await find, then
\* countDocuments; routesB starts both (Promise.all), the database answers
\* them in either order.  gone: the products that were inactive when the
\* request arrived; seen: the collection as it was then.
listBegin(s, op, q, pl, first, dbError) ==
  LET r == [phase |-> "idle", op |-> op, query |-> q, page |-> pl[1],
            limit |-> pl[2], gone |-> {i \in Ids : ~store[i].isActive}, products |-> <<>>,
            total |-> 0, dbError |-> dbError, seen |-> store]
      atOnce == ~Paginated \/ dbError \/ (first = "find" /\ findFails(r, dbError))
  IN /\ Ready
     /\ first = "find" \/ variant = "routesB"
     /\ (s = 0) <=> atOnce
     /\ IF ~Paginated
        THEN IF dbError THEN Respond(0, r, listError(r))
             ELSE Respond(0, r, [status |-> 200,
                                  count |-> Len(findSorted(criteria(op, q))),
                                  data |-> findSorted(criteria(op, q))])
        ELSE IF first = "find"
        THEN IF findFails(r, dbError) THEN Respond(0, r, listError(r))
             ELSE Await(s, [r EXCEPT !.phase = "found", !.products = findPage(r)])
        ELSE IF dbError THEN Respond(0, r, listError(r))
             ELSE Await(s, [r EXCEPT !.phase = "counted",
                                      !.total = countDocuments(criteria(op, q))])
     /\ UNCHANGED <<variant, store, users>>

GetProducts(s, pl, first, dbError) == listBegin(s, "list", <<>>, pl, first, dbError)

SearchProducts(s, q, pl, first, dbError) == listBegin(s, "search", q, pl, first, dbError)

\* the second database call of a paginated list or search, and the response
FinishQuery(s, dbError) ==
  LET r == [req[s] EXCEPT !.dbError = dbError]
  IN /\ Ready
     /\ r.phase \in {"found", "counted"}
     /\ IF r.phase = "found"
        THEN IF dbError THEN Respond(s, r, listError(r))
             ELSE LET total == countDocuments(criteria(r.op, r.query))
                  IN Respond(s, [r EXCEPT !.total = total],
                             pageResponse(r, r.products, total))
        ELSE IF findFails(r, dbError) THEN Respond(s, r, listError(r))
             ELSE Respond(s, [r EXCEPT !.products = findPage(r)],
                          pageResponse(r, findPage(r), r.total))
     /\ UNCHANGED <<variant, store, users>>

\* res.status(...).json(...): the response is on its way to the client
SendResponse ==
  /\ out # NoOut
  /\ out' = NoOut
  /\ UNCHANGED <<variant, store, users, req>>

\* ---------------------------------------------------------------- users
\* The user collection is the sequence of user documents in creation order.
AdminEmail == <<"a", "d", "m", "i", "n", "@", "k", "h", "u", "s", "h", "u", ".", "c", "o", "m">>
AdminPassword == <<"a", "d", "m", "i", "n", "1", "2", "3">>

\* bcrypt.hash(password, 10) and bcrypt.compare(password, hash): the hash is
\* not the password, and only the password it was made from compares equal
bcryptHash(password) == [bcrypt |-> password]
bcryptCompare(password, hash) == hash = bcryptHash(password)

\* jwt.sign({ id: user._id, role: user.role }, secret, { expiresIn: '4h' })
jwtSign(user) == [id |-> user.id, role |-> user.role]

\* data of the register and login responses: the password is left out
sanitized(user) ==
  [id |-> user.id, name |-> user.name, email |-> user.email, role |-> user.role]

\* a lookup that leaves out the isActive condition
findOneUserAny(email, activeOnly) ==
  LET found == {i \in 1..Len(users) : users[i].email = email}
  IN IF found = {} THEN <<>>
     ELSE <<users[CHOOSE i \in found : \A j \in found : i <= j]>>

\* User.findOne({ email }) and User.findOne({ email, isActive: true }):
\* <<user>> or <<>> (null)
findOneUser(email, activeOnly) ==
  LET found == {i \in 1..Len(users) :
                  users[i].email = email /\ (activeOnly => users[i].isActive)}
  IN IF found = {} THEN <<>>
     ELSE <<users[CHOOSE i \in found : \A j \in found : i <= j]>>

\* the unique index on email refuses a second document with the same email
duplicateKey(email) == \E i \in 1..Len(users) : users[i].email = email

\* the document User.create stores: isActive takes the schema default
newUser(name, email, phone, zipcode, hashed, role) ==
  [id |-> Len(users) + 1, name |-> name, email |-> email, phone |-> phone,
   zipcode |-> zipcode, password |-> hashed, role |-> role, isActive |-> TRUE]

\* a user an operator has deactivated in the database (no route does it)
InactiveEmail == <<"c", "@", "x">>
Password1 == <<"p", "w", "1">>
Password2 == <<"p", "w", "2">>
InactiveUser ==
  [id |-> 1, name |-> <<"C", "y">>, email |-> InactiveEmail, phone |-> <<"5">>,
   zipcode |-> <<"9">>, password |-> bcryptHash(Password1), role |-> "user",
   isActive |-> FALSE]
AdminUser ==
  [id |-> 1, name |-> <<"A", "d", "m", "i", "n">>, email |-> AdminEmail,
   phone |-> <<"1">>, zipcode |-> <<"1">>, password |-> bcryptHash(AdminPassword),
   role |-> "admin", isActive |-> TRUE]
UserStores == {<<>>, <<InactiveUser>>, <<AdminUser>>}

\* the server with the router mounted, on a user collection an earlier
\* deployment left
InitAuth ==
  /\ variant = "routesB"
  /\ store = <<>>
  /\ users \in UserStores
  /\ req = [s \in Slots |-> Idle]
  /\ out = NoOut

\* request bodies of register and login; <<>> is a missing field, and role
\* is a field the caller may add ("" when it does not)
RegEmails == {<<"a", "@", "x">>, <<"A", "@", "x">>, InactiveEmail, AdminEmail}
RegBody(email, password, role) ==
  [name |-> <<"A", "n", "n">>, email |-> email, phone |-> <<"5">>,
   zipcode |-> <<"9">>, password |-> password, role |-> role]
RegBodies ==
  {RegBody(e, Password1, r) : e \in RegEmails, r \in {"", "admin"}}
    \cup {RegBody(<<"a", "@", "x">>, <<>>, ""), RegBody(<<>>, Password1, "")}
LoginBodies ==
  {[email |-> e, password |-> p] :
     e \in RegEmails \cup {<<>>}, p \in {Password1, Password2, AdminPassword}}
    \cup {[email |-> <<"a", "@", "x">>, password |-> <<>>]}

\* createAdminUser.js, run by an operator
CreateAdminUser ==
  /\ Ready
  /\ findOneUser(AdminEmail, FALSE) = <<>>
  /\ users' = Append(users, [AdminUser EXCEPT !.id = Len(users) + 1])
  /\ UNCHANGED <<variant, store, req, out>>

\* a handler that passes the body's role on to User.create
registerRoleFromBody(body) == IF body.role = "" THEN "user" ELSE body.role

\* role: 'user' in the document register creates, whatever the body holds
registerRole(body) == "user"

\* a refusal that tells the caller the email is unknown
userNotFound == [status |-> 404, message |-> "User not found"]

\* the two refusals of login
noSuchUser == [status |-> 401, message |-> "Invalid credentials"]
wrongPassword == [status |-> 401, message |-> "Invalid credentials"]

\* whether two emails are the same but for letter case
EqualCI(a, b) ==
  Len(a) = Len(b) /\ \A i \in 1..Len(a) : toLowerChar(a[i]) = toLowerChar(b[i])

\* POST /api/auth/register up to User.findOne.  known: the email was
\* registered when the request arrived.
Register(s, body, dbError) ==
  LET r == [phase |-> "idle", op |-> "register", body |-> body, dbError |-> dbError,
            known |-> \E i \in 1..Len(users) : EqualCI(users[i].email, body.email)]
      missing == \E f \in {"name", "email", "phone", "zipcode", "password"} : body[f] = <<>>
      existing == findOneUser(toLowerCase(body.email), FALSE)
      atOnce == missing \/ dbError \/ existing # <<>>
  IN /\ Ready
     /\ dbError => ~missing
     /\ (s = 0) <=> atOnce
     /\ IF missing
        THEN Respond(0, r, [status |-> 400, message |-> "All fields are required"])
        ELSE IF dbError
        THEN Respond(0, r, [status |-> 500, message |-> "Registration error"])
        ELSE IF existing # <<>>
        THEN Respond(0, r, [status |-> 409, message |-> "Email already in use"])
        ELSE Await(s, [r EXCEPT !.phase = "looked"])
     /\ UNCHANGED <<variant, store, users>>

\* POST /api/auth/register from User.create on
RegisterCreate(s, dbError) ==
  LET r == [req[s] EXCEPT !.dbError = dbError]
      email == toLowerCase(r.body.email)
      user == newUser(r.body.name, email, r.body.phone, r.body.zipcode,
                      bcryptHash(r.body.password), registerRole(r.body))
  IN /\ Ready
     /\ req[s].phase = "looked"
     /\ IF dbError \/ duplicateKey(email)
        THEN /\ Respond(s, r, [status |-> 500, message |-> "Registration error"])
             /\ UNCHANGED users
        ELSE /\ users' = Append(users, user)
             /\ Respond(s, r, [status |-> 201, message |-> "Registered successfully",
                               data |-> sanitized(user), token |-> jwtSign(user)])
     /\ UNCHANGED <<variant, store>>

\* POST /api/auth/login
Login(body, dbError) ==
  LET r == [phase |-> "idle", op |-> "login", body |-> body, dbError |-> dbError]
      user == findOneUser(toLowerCase(body.email), TRUE)
  IN /\ Ready
     /\ dbError => body.email # <<>> /\ body.password # <<>>
     /\ IF body.email = <<>> \/ body.password = <<>>
        THEN Respond(0, r, [status |-> 400,
                            message |-> "Email and password are required"])
        ELSE IF dbError
        THEN Respond(0, r, [status |-> 500, message |-> "Login error"])
        ELSE IF user = <<>>
        THEN Respond(0, r, noSuchUser)
        ELSE IF ~bcryptCompare(body.password, user[1].password)
        THEN Respond(0, r, wrongPassword)
        ELSE Respond(0, r, [status |-> 200, message |-> "Login successful",
                            data |-> sanitized(user[1]), token |-> jwtSign(user[1])])
     /\ UNCHANGED <<variant, store, users>>

\* ------------------------------------------------------- specifications
\* One step of the deployment: the requests' inputs are drawn from the sets
\* given, and at most conc requests wait between two database calls.
Step(toks, bodies, creates, uploads, pls, qs, errs, conc) ==
  \/ \E tok \in toks, body \in bodies, files \in creates, e \in errs :
       CreateProduct(tok, body, files, e)
  \/ \E s \in 0..conc, tok \in toks, id \in KnownIds, body \in bodies,
        files \in uploads, e \in errs :
       UpdateProduct(s, tok, id, body, files, e)
  \/ \E s \in Slots, e \in errs : UpdateProductWrite(s, e)
  \/ \E tok \in toks, id \in KnownIds, e \in errs : DeleteProduct(tok, id, e)
  \/ \E id \in KnownIds, e \in errs : GetProduct(id, e)
  \/ \E s \in 0..conc, pl \in pls, first \in {"find", "count"}, e \in errs :
       GetProducts(s, pl, first, e)
  \/ \E s \in 0..conc, q \in qs, pl \in pls, first \in {"find", "count"}, e \in errs :
       SearchProducts(s, q, pl, first, e)
  \/ \E s \in Slots, e \in errs : FinishQuery(s, e)
  \/ SendResponse

OnePage == {<<<<"2">>, <<"1">>>>}
OneQuery == {<<"C", "A", "P">>}

\* every operation, interleaved; the images of the updates vary
Next ==
  Step({"admin"}, {Body2}, {<<>>, <<"a.png">>}, {<<>>, <<"a.png">>, <<"b.jpg", "a.png">>},
       OnePage, OneQuery, {FALSE}, MaxReqs)

Spec == Init /\ [][Next]_vars

\* every operation, interleaved; the reads' inputs vary
NextRead ==
  Step({"admin"}, {Body2}, {<<"a.png">>}, {<<>>, <<"a.png">>}, PageLimit, Queries, {FALSE}, 1)

SpecRead == Init /\ [][NextRead]_vars

\* every operation, interleaved; the tokens, bodies and uploads vary
NextCreate ==
  Step(Tokens, Bodies, Uploads, {<<"a.png">>}, OnePage, OneQuery, {FALSE}, 1)

SpecCreate == Init /\ [][NextCreate]_vars

\* the routes of the auth router and the admin script
AuthStep(regs, logins, errs) ==
  \/ \E s \in 0..MaxReqs, body \in regs, e \in errs : Register(s, body, e)
  \/ \E s \in Slots, e \in errs : RegisterCreate(s, e)
  \/ \E body \in logins, e \in errs : Login(body, e)
  \/ CreateAdminUser

NextAuth == AuthStep(RegBodies, LoginBodies, {FALSE}) \/ SendResponse

SpecAuth == InitAuth /\ [][NextAuth]_vars

\* every operation, with database calls that may fail
NextFail ==
  \/ Step({"admin"}, {Body2}, {<<"a.png">>}, {<<>>, <<"a.png">>}, OnePage, OneQuery,
          {FALSE, TRUE}, 1)
  \/ AuthStep({RegBody(<<"a", "@", "x">>, Password1, "")},
              {[email |-> <<"a", "@", "x">>, password |-> Password1]}, {FALSE, TRUE})

SpecFail == Init /\ [][NextFail]_vars

\* every operation, interleaved; the bodies of the updates vary
NextUpdate ==
  Step({"admin"}, {Body2, BodyActive, BodyBad}, {<<"a.png">>}, {<<>>, <<"a.png">>},
       OnePage, OneQuery, {FALSE}, 1)

SpecUpdate == Init /\ [][NextUpdate]_vars

\* ---------------------------------------------------------------- claims
Mutating == {"create", "update", "delete"}
Listing == {"list", "search"}

\* the exchange just completed
Answered(ops) == out.req.op \in ops
Succeeded(ops) == out.req.op \in ops /\ out.res.status \in {200, 201}

\* C1: the product store changes only by a create, update or delete request
\* that carried a valid admin token; such a request with a missing or invalid
\* token is answered 401, with a valid non-admin token 403, and leaves the
\* store unchanged.
C1_OnlyAdminsWrite ==
  [][ /\ store' # store =>
           out'.req.op \in Mutating /\ verifyToken(out'.req.tok) = "admin"
      /\ (out' # NoOut /\ out'.req.op \in Mutating
            /\ verifyToken(out'.req.tok) # "admin") =>
           /\ store' = store
           /\ out'.res.status =
                IF verifyToken(out'.req.tok) = "invalid" THEN 401 ELSE 403 ]_vars

\* C2: once softDelete(id) has succeeded, no list or search request that
\* arrives later has the product in its data, whatever page, limit and query
\* it carries and whatever was executed in between.
C2_DeletedNeverListed ==
  Succeeded(Listing) =>
    \A i \in 1..Len(out.res.data) : out.res.data[i].id \notin out.req.gone

\* a search answered with another product while a deleted product that
\* matches the query stays out
C2_Witness ==
  /\ Succeeded({"search"})
  /\ out.res.data # <<>>
  /\ \E i \in out.req.gone :
       RegexMatch(store[i].name, out.req.query)
         \/ RegexMatch(store[i].description, out.req.query)

\* C3: after softDelete(id) has succeeded, getById(id) answers NotFoundError
\* (404) and no longer returns the product.
C3_DeletedNotFetched ==
  (Answered({"get"}) /\ out.req.id \in Ids /\ ~store[out.req.id].isActive) =>
    out.res.status = 404

\* C4: no step removes a product from the store or changes its id, and no
\* step turns a product's isActive from false back to true.
C4_NeverRemovedNeverRevived ==
  [][ \A i \in Ids :
        /\ i \in 1..Len(store')
        /\ store'[i].id = i
        /\ ~store[i].isActive => ~store'[i].isActive ]_vars

\* an update of a soft-deleted product succeeded and the product is still
\* inactive
C4_Witness ==
  /\ Succeeded({"update"})
  /\ ~store[out.req.id].isActive
  /\ out.req.files # <<>>

\* C5: a successful update with new images stores (and returns) the sequence
\* the product had before the write followed by the new images in upload
\* order; a successful update without new images leaves the sequence as it
\* was.
C5_UpdateAppends ==
  [][ (out' # NoOut /\ out'.req.op = "update" /\ out'.res.status = 200) =>
        /\ store'[out'.req.id].images =
             store[out'.req.id].images \o storedImages("update", out'.req.files)
        /\ Len(out'.res.data.images) =
             Len(store[out'.req.id].images) + Len(out'.req.files) ]_vars

\* C6: the write of an update with new images stores the images its own
\* findById read followed by its new images, whatever the store holds at the
\* time of the write: what a rival update wrote in between is lost.
C6_WriteFromStaleRead ==
  (Succeeded({"update"}) /\ out.req.files # <<>> /\ out.req.existing # <<>>) =>
    store[out.req.id].images =
      out.req.existing[1].images \o storedImages("update", out.req.files)

\* both updates were answered with success, and the stored sequence is
\* shorter than the one the first of them stored and returned
C6_Witness ==
  /\ Succeeded({"update"})
  /\ out.req.overtaken # <<>>
  /\ Len(store[out.req.id].images) < Len(out.req.overtaken[1])
  /\ \E i \in 1..Len(out.req.overtaken[1]) :
       \A j \in 1..Len(store[out.req.id].images) :
         store[out.req.id].images[j] # out.req.overtaken[1][i]

\* C7: an authorized create request with zero images is answered 400 ("At
\* least one image is required") whatever the other fields are, and stores
\* nothing.
C7_NoImagesNoProduct ==
  [][ (out' # NoOut /\ out'.req.op = "create" /\ authStatus(out'.req.tok) = 0
         /\ out'.req.files = <<>>) =>
        /\ out'.res.status = 400
        /\ out'.res.message = "At least one image is required"
        /\ store' = store ]_vars

\* a create with a valid body, an admin token and no image was refused
C7_Witness ==
  /\ Answered({"create"})
  /\ out.req.files = <<>>
  /\ out.req.body = Body1
  /\ out.req.tok = "admin"
  /\ out.res.status = 400

\* C8: every stored product has at least one image, and a create that
\* succeeded returns an active product with as many images as files were
\* uploaded.
C8_AlwaysAnImage ==
  /\ \A i \in Ids : Len(store[i].images) >= 1
  /\ Succeeded({"create"}) =>
       /\ out.res.data.isActive
       /\ Len(out.res.data.images) = Len(out.req.files)
       /\ store[Len(store)].isActive
       /\ Len(store[Len(store)].images) = Len(out.req.files)

\* a product was created from one file next to a product that was updated
\* and soft-deleted
C8_Witness ==
  /\ Succeeded({"create"})
  /\ Len(out.req.files) = 1
  /\ \E i \in Ids : ~store[i].isActive /\ Len(store[i].images) > 1

\* C9: in a paginated list or search response with page >= 1 and limit >= 1
\* count is the total the count query returned (in the server files, where
\* the count is the last call, the number of matching active products),
\* totalPages is the least number of pages of that size that hold the total,
\* hasNextPage holds exactly when page * limit < total and hasPrevPage
\* exactly when page > 1.
C9_PaginationMetadata ==
  (Succeeded(Listing) /\ Paginated /\ pageOf(out.req) >= 1 /\ limitOf(out.req) >= 1) =>
    LET total == out.req.total
        size == limitOf(out.req)
        r == out.res
    IN /\ r.count = total
       /\ r.totalPages >= 0
       /\ r.totalPages * size >= total
       /\ (r.totalPages - 1) * size < total
       /\ r.hasNextPage <=> (r.page * size < total)
       /\ r.hasPrevPage <=> (r.page > 1)
       /\ IsServer =>
            total = Cardinality({i \in Ids :
                       /\ store[i].isActive
                       /\ \/ out.req.op = "list"
                          \/ RegexMatch(store[i].name, out.req.query)
                          \/ RegexMatch(store[i].description, out.req.query)})

\* the first page of one product out of two
C9_Witness ==
  /\ Succeeded({"list"})
  /\ Paginated
  /\ out.res.count = 2
  /\ Len(out.res.data) = 1
  /\ out.res.totalPages = 2
  /\ out.res.hasNextPage
  /\ ~out.res.hasPrevPage

\* a parameter that is a number as the caller wrote it: an optional sign and
\* digits only
IsNumeric(p) ==
  LET u == IF p # <<>> /\ Head(p) \in {"+", "-"} THEN Tail(p) ELSE p
  IN u # <<>> /\ \A i \in 1..Len(u) : u[i] \in DigitChars
NumericValue(p) ==
  IF Head(p) = "-" THEN -DecimalValue(Tail(p), 0)
  ELSE IF Head(p) = "+" THEN DecimalValue(Tail(p), 0)
  ELSE DecimalValue(p, 0)

\* the least number of pages of the given size that hold total items
IsPageCount(n, total, size) == n >= 0 /\ n * size >= total /\ (n - 1) * size < total

EffectiveParam(p, d) ==
  IF parseInt(p).isNaN \/ parseInt(p).val = 0 THEN d ELSE parseInt(p).val

ContainsCI(text, q) ==
  \E off \in 0..(Len(text) - Len(q)) :
    \A i \in 1..Len(q) : toLowerChar(q[i]) = toLowerChar(text[off + i])

\* the active products whose name, description or category contains q
SubstringMatches(q) ==
  {i \in Ids : /\ store[i].isActive
               /\ \/ ContainsCI(store[i].name, q)
                  \/ ContainsCI(store[i].description, q)
                  \/ ContainsCI(store[i].category, q)}

\* C11: a search that ran on an unmodified store counts exactly the active
\* products whose name, description or category contains the query as a
\* case-insensitive substring, and returns only such products.
C11_SearchBySubstring ==
  (Succeeded({"search"}) /\ out.req.seen = store) =>
    /\ out.res.count = Cardinality(SubstringMatches(out.req.query))
    /\ \A i \in 1..Len(out.res.data) :
         out.res.data[i].id \in SubstringMatches(out.req.query)

\* a register or login request that carried every field it needs and met no
\* database failure
Complete(ops) ==
  /\ out.req.op \in ops
  /\ ~out.req.dbError
  /\ out.req.body.email # <<>> /\ out.req.body.password # <<>>
  /\ out.req.op = "register" =>
       \A f \in {"name", "phone", "zipcode"} : out.req.body[f] # <<>>

\* C12: a register request whose email was registered when it arrived, in
\* whatever letter case, is answered 409 with no token, and it leaves the
\* user collection as it was.
C12_DuplicateEmailConflict ==
  [][ (out' # NoOut /\ out'.req.op = "register" /\ out'.req.known
         /\ ~out'.req.dbError
         /\ \A f \in {"name", "email", "phone", "zipcode", "password"} :
              out'.req.body[f] # <<>>) =>
        /\ out'.res.status = 409
        /\ "token" \notin DOMAIN out'.res
        /\ users' = users ]_vars

\* A@x was refused after a@x had been registered
C12_Witness ==
  /\ Answered({"register"})
  /\ out.req.body.email = <<"A", "@", "x">>
  /\ out.res.status = 409
  /\ \E i \in 1..Len(users) : users[i].email = <<"a", "@", "x">> /\ users[i].role = "user"

\* the stored users a login with this body could be meant for
SameEmail(body) == {i \in 1..Len(users) : EqualCI(users[i].email, body.email)}

\* C13: login issues a token only for an active user with the given email
\* whose stored hash was made from the given password; with the right
\* password of an inactive user it answers 401 and issues no token.
C13_LoginOnlyActiveMatching ==
  Answered({"login"}) =>
    /\ "token" \in DOMAIN out.res =>
         \E i \in SameEmail(out.req.body) :
           /\ users[i].isActive
           /\ users[i].password = bcryptHash(out.req.body.password)
           /\ out.res.token.id = users[i].id
    /\ (Complete({"login"})
          /\ \E i \in SameEmail(out.req.body) :
               ~users[i].isActive /\ users[i].password = bcryptHash(out.req.body.password)) =>
         out.res.status = 401 /\ "token" \notin DOMAIN out.res

\* the inactive user logged in with the right password and was refused
C13_Witness ==
  /\ Answered({"login"})
  /\ out.req.body = [email |-> InactiveEmail, password |-> Password1]
  /\ out.res.status = 401
  /\ users = <<InactiveUser>>

\* why the store refuses a login: no user has the email, the user is
\* inactive, or the password is another one
RefusalCase(body) ==
  IF SameEmail(body) = {} THEN "no user"
  ELSE IF \A i \in SameEmail(body) : ~users[i].isActive THEN "inactive"
  ELSE IF \A i \in SameEmail(body) : users[i].password # bcryptHash(body.password)
  THEN "other password"
  ELSE "accepted"

\* C14: whichever of the three reasons a login is refused for, the response
\* is the same record: status 401, message "Invalid credentials", nothing
\* else.
C14_SameRefusal ==
  (Complete({"login"}) /\ RefusalCase(out.req.body) # "accepted") =>
    out.res = [status |-> 401, message |-> "Invalid credentials"]

\* an active user logged in with another password than the stored one
C14_Witness ==
  /\ Complete({"login"})
  /\ RefusalCase(out.req.body) = "other password"
  /\ out.res.status = 401

\* C16 as stated: every user register creates has role user and the token
\* register issues encodes it, and no register or login request stores an
\* admin user or issues a token with role admin.
C16_NoAdminFromRegisterOrLogin ==
  [][ (out' # NoOut /\ out'.req.op \in {"register", "login"}) =>
        /\ \A i \in 1..Len(users') :
             users'[i].role = "admin" => i <= Len(users) /\ users[i].role = "admin"
        /\ "token" \in DOMAIN out'.res => out'.res.token.role # "admin" ]_vars

\* C16 amended: every user register creates has role user, whatever role the
\* body names, and the token register issues encodes that user and role; no
\* register or login request stores an admin user; login issues a token
\* with role admin only for an admin user that is already stored.
C16_RegisterNeverAdmin ==
  [][ (out' # NoOut /\ out'.req.op \in {"register", "login"}) =>
        /\ \A i \in 1..Len(users') :
             users'[i].role = "admin" => i <= Len(users) /\ users[i].role = "admin"
        /\ (out'.req.op = "register" /\ out'.res.status = 201) =>
             /\ Len(users') = Len(users) + 1
             /\ users'[Len(users')].role = "user"
             /\ out'.res.data.role = "user"
             /\ out'.res.token = [id |-> users'[Len(users')].id, role |-> "user"]
        /\ (out'.req.op = "login" /\ "token" \in DOMAIN out'.res
              /\ out'.res.token.role = "admin") =>
             \E i \in 1..Len(users) :
               users[i].role = "admin" /\ users[i].id = out'.res.token.id ]_vars

\* a register whose body asked for role admin stored a user of role user
C16_Witness ==
  /\ Succeeded({"register"})
  /\ out.req.body.role = "admin"
  /\ out.res.token.role = "user"
  /\ users[Len(users)].role = "user"

\* C19: at most one user has a given email, and a register request that
\* carried every field is answered 201 with a token or 409, also when it
\* passed the lookup before a rival request created the user.
C19_RegisterRaceConflict ==
  /\ \A i, j \in 1..Len(users) : EqualCI(users[i].email, users[j].email) => i = j
  /\ Complete({"register"}) =>
       \/ out.res.status = 201 /\ "token" \in DOMAIN out.res
       \/ out.res.status = 409

\* C15: whatever the operation, a request whose database call failed is
\* answered with status 500.
C15_StoreFailureIs500 ==
  (out # NoOut /\ out.req.dbError) => out.res.status = 500

\* C17: getById, update and softDelete on an id no product has are answered
\* 404 and leave the store as it was; softDelete on an id a product has is
\* answered 200 and leaves the product inactive, also when it already was.
C17_AbsentIdNotFound ==
  [][ (out' # NoOut /\ out'.req.op \in {"get", "update", "delete"}
         /\ ~out'.req.dbError
         /\ (out'.req.op = "get" \/ authStatus(out'.req.tok) = 0)) =>
        /\ out'.req.id \notin Ids =>
             out'.res.status = 404 /\ store' = store
        /\ (out'.req.op = "delete" /\ out'.req.id \in Ids) =>
             out'.res.status = 200 /\ ~store'[out'.req.id].isActive ]_vars

\* the k-th newest active product: the one with k - 1 active products
\* created after it
ActiveNewest(k) ==
  CHOOSE i \in Ids :
    /\ store[i].isActive
    /\ Cardinality({j \in Ids : store[j].isActive /\ j > i}) = k - 1

NumActive == Cardinality({i \in Ids : store[i].isActive})

\* how many of n items page number page of the given size holds
ExpectedLen(page, size, n) ==
  IF n - (page - 1) * size <= 0 THEN 0
  ELSE IF n - (page - 1) * size < size THEN n - (page - 1) * size
  ELSE size

\* a paginated response with page >= 1 and page size >= 1
ValidPage(ops) ==
  /\ Succeeded(ops)
  /\ Paginated
  /\ out.res.page >= 1
  /\ EffectiveParam(out.req.limit, 12) >= 1

\* C18: on a store that was not modified during the request, the data of
\* list(page, pageSize) are the active products at positions
\* (page-1)*pageSize+1 .. page*pageSize of the newest-first order, as far as
\* they exist; a page beyond totalPages is empty.
C18_ListPageSlice ==
  (ValidPage({"list"}) /\ out.req.seen = store) =>
    LET size == EffectiveParam(out.req.limit, 12)
        first == (out.res.page - 1) * size
    IN /\ Len(out.res.data) = ExpectedLen(out.res.page, size, NumActive)
       /\ \A k \in 1..Len(out.res.data) :
            out.res.data[k].id = ActiveNewest(first + k)
       /\ out.res.page > out.res.totalPages => out.res.data = <<>>

\* page 2 of size 1 holds the older of two active products
C18_Witness ==
  /\ ValidPage({"list"})
  /\ out.req.seen = store
  /\ out.res.page = 2
  /\ NumActive = 2
  /\ Len(out.res.data) = 1
  /\ out.res.data[1].id = ActiveNewest(2)

\* C20 as stated: whatever runs between the two queries of a list or
\* search, the data are never longer than count and their length is
\* min(pageSize, max(0, count - (page-1)*pageSize)).
C20_CountAndDataAgree ==
  ValidPage(Listing) =>
    /\ Len(out.res.data) <= out.res.count
    /\ Len(out.res.data) =
         ExpectedLen(out.res.page, EffectiveParam(out.req.limit, 12), out.res.count)

\* C20 amended: the data are never longer than the page size; when the
\* store is the same at the two queries, the data are never longer than
\* count, their length is min(pageSize, max(0, count - (page-1)*pageSize)),
\* and the count of a list is the number of active products.
C20_CountAndDataAgreeOnUnmodifiedStore ==
  ValidPage(Listing) =>
    /\ Len(out.res.data) <= EffectiveParam(out.req.limit, 12)
    /\ out.req.seen = store =>
         /\ Len(out.res.data) <= out.res.count
         /\ Len(out.res.data) =
              ExpectedLen(out.res.page, EffectiveParam(out.req.limit, 12), out.res.count)
         /\ out.req.op = "list" => out.res.count = NumActive

\* a search on an unmodified store found two products and returned the
\* first page of one
C20_Witness ==
  /\ ValidPage({"search"})
  /\ out.req.seen = store
  /\ out.res.count = 2
  /\ Len(out.res.data) = 1

====
